---- MODULE Spec2Model ----
(***************************************************************************)
(* Model of tkeysign.go: the client of the RSA signer app on the TKey.     *)
(*                                                                         *)
(* One public operation of Signer runs at a time (the package is           *)
(* single-threaded).  Every transport call (tk.Write, tk.ReadFrame,        *)
(* tk.SetReadTimeout) and every file-system call is one action; the code   *)
(* between two such calls is deterministic and belongs to the action of    *)
(* the call that precedes it.  The device and the transport are the        *)
(* environment: each call's outcome is chosen with \E.                     *)
(*                                                                         *)
(* A frame is [code, payload]; payload is the frame from index 2 on, so    *)
(* the Go expression rx[k] is payload[k - 1] here (sequences start at 1).  *)
(***************************************************************************)
EXTENDS Integers, Sequences, FiniteSets

\* ------------------------------------------------------------ bounds

\* Under Spec, Sign is called with messages of 0, MsgUnit, ..., MaxMsgUnits * MsgUnit bytes.
MaxMsgUnits == 3

MsgUnit == 100

\* Under SpecSign, Sign is called with every message length up to MaxSignLen, and
\* with the lengths from MaxSignSize - 1 to MaxSignSize + MaxOver.
MaxSignLen == 512

MaxOver == 1

\* Longest key file.
MaxFileLen == 1677

\* The device answers a multi-frame command with one of MaxSeed + 1 byte patterns.
MaxSeed == 1

\* Under SpecGuard a chunk step may report up to MaxExtra bytes more than it copied.
MaxExtra == 1

\* ------------------------------------------------------------ constants

MaxSignSize == 4096

CmdLen1 == 1

CmdLen4 == 4

CmdLen32 == 32

CmdLen128 == 128

StatusOK == 0

StatusBad == 1

\* len(key) in LoadKey, len(rsp) in keyEncrypt
KeySize == 1676

\* LoadKey rejects a read of fewer bytes than this
MinKeyRead == 1675

\* mutant: the loop reads one frame less
EncFullFrames_short == 13 - 1

\* full frames of keyEncrypt's loop
EncFullFrames == 13

\* length of the firmware digest
DigestSize == 64

\* the read timeout GetAppNameVersion sets, in seconds
IdTimeout == 2

\* ------------------------------------------------------------ command registry

cmdGetPubkey == [code |-> 1, name |-> "cmdGetPubkey", cmdLen |-> CmdLen1]

rspGetPubkey == [code |-> 2, name |-> "rspGetPubkey", cmdLen |-> CmdLen128]

cmdSetSize == [code |-> 3, name |-> "cmdSetSize", cmdLen |-> CmdLen32]

rspSetSize == [code |-> 4, name |-> "rspSetSize", cmdLen |-> CmdLen4]

cmdSignData == [code |-> 5, name |-> "cmdSignData", cmdLen |-> CmdLen128]

\* mutant: the chunk commands are answered with a response code of their own
rspSignData_own == [code |-> 23, name |-> "rspSignData", cmdLen |-> CmdLen4]

rspSignData == [code |-> 6, name |-> "rspSignData", cmdLen |-> CmdLen4]

cmdGetSig == [code |-> 7, name |-> "cmdGetSig", cmdLen |-> CmdLen1]

rspGetSig == [code |-> 8, name |-> "rspGetSig", cmdLen |-> CmdLen128]

cmdGetNameVersion == [code |-> 9, name |-> "cmdGetNameVersion", cmdLen |-> CmdLen1]

rspGetNameVersion == [code |-> 10, name |-> "rspGetNameVersion", cmdLen |-> CmdLen32]

cmdGetFirmwareHash == [code |-> 11, name |-> "cmdGetFirmwareHash", cmdLen |-> CmdLen32]

rspGetFirmwareHash == [code |-> 12, name |-> "rspGetFirmwareHash", cmdLen |-> CmdLen128]

cmdLoadKey == [code |-> 13, name |-> "cmdLoadKey", cmdLen |-> CmdLen128]

cmdEncryptKey == [code |-> 14, name |-> "cmdEncryptKey", cmdLen |-> CmdLen1]

rspEncryptKey == [code |-> 15, name |-> "rspEncryptKey", cmdLen |-> CmdLen128]

cmdLoadEncKey == [code |-> 16, name |-> "cmdLoadEncKey", cmdLen |-> CmdLen128]

cmdIsKeyLoaded == [code |-> 17, name |-> "cmdIsKeyLoaded", cmdLen |-> CmdLen1]

rspIsKeyLoaded == [code |-> 18, name |-> "rspIsKeyLoaded", cmdLen |-> CmdLen4]

cmdDecryptKey == [code |-> 19, name |-> "cmdDecryptKey", cmdLen |-> CmdLen1]

rspDecryptKey == [code |-> 20, name |-> "rspDecryptKey", cmdLen |-> CmdLen4]

cmdParseKey == [code |-> 21, name |-> "cmdParseKey", cmdLen |-> CmdLen1]

rspParseKey == [code |-> 22, name |-> "rspParseKey", cmdLen |-> CmdLen4]

\* ------------------------------------------------------------ helpers

Min(a, b) == IF a < b THEN a ELSE b

Max(a, b) == IF a > b THEN a ELSE b

\* Go's byte(x >> (8 * k)) for x >= 0
ByteOf(x, k) == (x \div (256 ^ k)) % 256

\* ceil(n / d)
CeilDiv(n, d) == (n + d - 1) \div d

Zeros(n) == [j \in 1..n |-> 0]

\* cmd.CmdLen().Bytelen() - 1: the bytes of a frame after the command code
PayloadLen(cmd) == cmd.cmdLen - 1

\* tkeyclient.NewFrameBuf(cmd, id): a zeroed frame carrying cmd's code
NewFrameBuf(cmd) == [code |-> cmd.code, payload |-> Zeros(PayloadLen(cmd))]

\* the Go statement copy(dst[lo:hi], src): the new dst
CopyInto(dst, lo, hi, src) ==
  LET n == Min(hi - lo, Len(src))
  IN [j \in 1..Len(dst) |-> IF j > lo /\ j <= lo + n THEN src[j - lo] ELSE dst[j]]

\* the number of bytes copy(dst[lo:hi], src) reports
CopyCount(lo, hi, src) == Min(hi - lo, Len(src))

RECURSIVE SumSeq(_)
SumSeq(s) == IF s = <<>> THEN 0 ELSE s[1] + SumSeq(Tail(s))

\* fmt.Errorf("<ctx>: %w", e): an error is the sequence of its contexts
Wrap(ctx, e) == ctx \o e

\* ------------------------------------------------------------ inputs

\* byte j of the message Sign is called with (never 0, so padding shows)
MsgByte(j) == ((j * 37) % 255) + 1

Message(n) == [j \in 1..n |-> MsgByte(j)]

\* '-' opens a PEM block, the newline after its END line closes it
Dash == 45

Newline == 10

\* a PEM key file of n bytes: "-----BEGIN ... END ...-----\n"
PemFile(n) ==
  [j \in 1..n |-> IF j = 1 THEN Dash ELSE IF j = n THEN Newline ELSE 65 + (j % 26)]

\* a device-encrypted key file of n bytes
EncFile(n) == [j \in 1..n |-> 128 + ((j * 11) % 128)]

FileLens == (KeySize - 2)..MaxFileLen

\* a PEM key file of n bytes whose END line ends at byte MinKeyRead: the key is
\* followed by other bytes
PemTrailFile(n) ==
  [j \in 1..n |->
     IF j = 1 THEN Dash ELSE IF j = MinKeyRead THEN Newline ELSE 65 + (j % 26)]

Files ==
  {PemFile(n) : n \in FileLens}
    \cup {EncFile(n) : n \in FileLens}
    \cup {PemTrailFile(n) : n \in (KeySize + 1)..MaxFileLen}

\* pem.Decode(key) returns a block: a BEGIN line opens key and the block's END
\* line lies inside key
PemDecode(k) == Len(k) > 0 /\ k[1] = Dash /\ \E j \in 1..Len(k) : k[j] = Newline

\* byte j of frame k (from 0) of the device's answer with pattern seed
DevByte(seed, k, j) == (seed * 89 + k * 131 + j * 7 + 1) % 256

\* the byte counts GetFWDigest is called with
FWLens == {0, 255, 256, 8192, 65535, 65536, 16777215, 16909060, 2147483647}

\* ------------------------------------------------------------ state

VARIABLES
  pc,          \* the transport or file call the running operation makes next
  op,          \* the public operation running, or the last one that ran
  data,        \* the payload being chunked: Sign's data, LoadKey's key
  block,       \* LoadKey: pem.Decode found a block
  offset,      \* the cursor of the chunking loop
  nsents,      \* the byte counts the chunk steps returned, in order
  tx,          \* the frame built for the last tk.Write
  dev,         \* the pattern of the device's answer to the last command
  log,         \* the transport calls and file writes of the running operation, in order
  buf,         \* the reassembly buffer: pubkeyRaw, signatureRaw, rsp
  idx,         \* the number of frames reassembled into buf
  result,      \* the value the operation returned (<<>> is nil)
  err,         \* the error the operation returned (<<>> is nil)
  readTimeout, \* the connection's read timeout in seconds (0: reads block)
  file         \* the bytes of the key file at rsaKeyPath

vars ==
  <<pc, op, data, block, offset, nsents, tx, dev, log, buf, idx, result, err,
    readTimeout, file>>

Nil == <<>>

NoFrame == [code |-> 0, payload |-> <<>>]

\* one tk.Write in the log: the frame written and the cursor it was built at
WrEv(frame, res, off) ==
  [kind |-> "w", code |-> frame.code, res |-> res, off |-> off, payload |-> frame.payload]

\* one f.Write of LoadKey in the log: the byte count it reported
FileEv(n) ==
  [kind |-> "f", code |-> 0, res |-> IF n = KeySize THEN "ok" ELSE "err", off |-> n,
   payload |-> <<>>]

\* one tk.ReadFrame in the log: the response expected and, when read, its payload
RdEv(rsp, res, payload) ==
  [kind |-> "r", code |-> rsp.code, res |-> res, off |-> 0, payload |-> payload]

WriteResults == {"ok", "err"}

\* tk.ReadFrame returns a frame of the expected response, or fails; it times out
\* only while a read timeout is set
ReadResults == {"ok", "err"} \cup (IF readTimeout > 0 THEN {"timeout"} ELSE {})

Statuses == {StatusOK, StatusBad}

\* a response frame that carries a status byte at rx[2]
StatusFrame(rsp, st) ==
  [code |-> rsp.code,
   payload |-> [j \in 1..PayloadLen(rsp) |-> IF j = 1 THEN st ELSE 0]]

\* frame k (from 0) of a multi-frame answer
DataFrame(rsp, seed, k) ==
  [code |-> rsp.code, payload |-> [j \in 1..PayloadLen(rsp) |-> DevByte(seed, k, j)]]

Init ==
  /\ pc = "idle"
  /\ op = "none"
  /\ data = <<>>
  /\ block = FALSE
  /\ offset = 0
  /\ nsents = <<>>
  /\ tx = NoFrame
  /\ dev = 0
  /\ log = <<>>
  /\ buf = <<>>
  /\ idx = 0
  /\ result = Nil
  /\ err = Nil
  /\ readTimeout = 0
  /\ file \in Files

\* a public operation starts: its locals are fresh (result and err are nil
\* while idle, and stay so until the operation returns)
Call(name) ==
  /\ pc = "idle"
  /\ op' = name
  /\ offset' = 0
  /\ nsents' = <<>>
  /\ tx' = NoFrame
  /\ log' = <<>>
  /\ buf' = <<>>
  /\ idx' = 0
  /\ UNCHANGED <<dev, readTimeout>>

\* the public operation returns (r, e) to its caller
Return(r, e) ==
  /\ pc' = "done"
  /\ result' = r
  /\ err' = e

\* the caller has taken (result, err): the locals of the returned operation are
\* gone, the connection and the key file stay as the operation left them
Idle ==
  /\ pc = "done"
  /\ pc' = "idle"
  /\ op' = "none"
  /\ data' = <<>>
  /\ block' = FALSE
  /\ offset' = 0
  /\ nsents' = <<>>
  /\ tx' = NoFrame
  /\ dev' = 0
  /\ log' = <<>>
  /\ buf' = <<>>
  /\ idx' = 0
  /\ result' = Nil
  /\ err' = Nil
  /\ UNCHANGED <<readTimeout, file>>

\* the operation goes on to its next transport call
Goto(p) ==
  /\ pc' = p
  /\ UNCHANGED <<result, err>>

\* mutant: the status byte is not looked at
StatusIsOK_any(rx) == TRUE

\* rx[2] == tkeyclient.StatusOK
StatusIsOK(rx) == rx.payload[1] = StatusOK

\* rx[lo:] of a frame read
RxFrom(rx, lo) == SubSeq(rx.payload, lo - 1, Len(rx.payload))

\* rx[lo:hi] of a frame read
RxSlice(rx, lo, hi) == SubSeq(rx.payload, lo - 1, hi - 2)

\* the error of a failed tk.Write
WriteErr == <<"Write", "io">>

\* the error of a failed tk.ReadFrame
ReadErr(res) == <<"ReadFrame", res>>

\* ------------------------------------------------------------ outbound chunking

\* signLoad, transferPiece, keyEncLoad: copied := copy(payload, content)
ChunkCopied(cmd, content) == Min(PayloadLen(cmd), Len(content))

\* mutant: the tail of a short chunk is not zeroed
ChunkFrame_dirty(cmd, content) ==
  LET copied == ChunkCopied(cmd, content)
  IN [code |-> cmd.code,
      payload |-> [j \in 1..PayloadLen(cmd) |-> IF j <= copied THEN content[j] ELSE 255]]

\* signLoad, transferPiece, keyEncLoad: the frame written for content, padded
ChunkFrame(cmd, content) ==
  LET copied == ChunkCopied(cmd, content)
  IN [code |-> cmd.code,
      payload |-> [j \in 1..PayloadLen(cmd) |-> IF j <= copied THEN content[j] ELSE 0]]

\* mutant: one byte more than was copied is counted as sent
ChunkSent_more(cmd, content) == ChunkCopied(cmd, content) + 1

\* mutant: the padded length is counted as sent
ChunkSent_padded(cmd, content) == PayloadLen(cmd)

\* signLoad, transferPiece, keyEncLoad: the count returned after a success status
ChunkSent(cmd, content) == ChunkCopied(cmd, content)

\* data[offset:]
Content == SubSeq(data, offset + 1, Len(data))

\* setSize's request: size as 4 little-endian bytes at tx[2..5]
setSizeFrame(size) ==
  [code |-> cmdSetSize.code,
   payload |-> [j \in 1..PayloadLen(cmdSetSize) |->
                  IF j <= 4 THEN ByteOf(size, j - 1) ELSE 0]]

\* mutant: the loop stops one chunk early
SignNext_early(off, n) ==
  IF off + 127 < n THEN "signLoad_Write" ELSE "getSig_Write"

\* where Sign's loop goes with the cursor at off: the next chunk, the error
\* after the loop, or getSig
SignNext(off, n) ==
  IF off < n THEN "signLoad_Write"
  ELSE IF off > n THEN "overshoot"
  ELSE "getSig_Write"

\* mutant: the loop's exit is not followed by the test of the cursor
TransferNext_loose(off, n) ==
  IF off < n THEN "transferPiece_Write" ELSE "keyEncrypt_Write"

\* where transferKey's loop goes: the next chunk, the error, or its return to
\* encryptKey, which calls keyEncrypt
TransferNext(off, n) ==
  IF off < n THEN "transferPiece_Write"
  ELSE IF off > n THEN "overshoot"
  ELSE "keyEncrypt_Write"

\* mutant: the encrypted key is handed to encrypt-key, as transferKey's caller does
LoadEncNext_encrypt(off, n) ==
  IF off < n THEN "keyEncLoad_Write"
  ELSE IF off > n THEN "overshoot"
  ELSE "keyEncrypt_Write"

\* where loadEncKey's loop goes: the next chunk, the error, or its return to
\* LoadKey, which calls decryptKey
LoadEncNext(off, n) ==
  IF off < n THEN "keyEncLoad_Write"
  ELSE IF off > n THEN "overshoot"
  ELSE "decryptKey_Write"

\* the contexts the callers of a chunking function add to its error
ChunkingCtx ==
  IF op = "Sign" THEN <<>>
  ELSE IF block THEN <<"failed to encrypt", "transferKey">>
  ELSE <<"failed load keye">>

\* the loop of Sign, transferKey or loadEncKey with the cursor at off
ChunkLoop(off) ==
  LET n == Len(data)
      next == IF op = "Sign" THEN SignNext(off, n)
              ELSE IF block THEN TransferNext(off, n)
              ELSE LoadEncNext(off, n)
  IN IF next = "overshoot"
     THEN Return(Nil, Wrap(ChunkingCtx, <<"transmitted more than expected">>))
     ELSE Goto(next)

\* setSize failed with e: Sign, transferKey or loadEncKey wraps and returns it
setSizeFail(e) == Return(Nil, Wrap(ChunkingCtx, Wrap(<<"setSize">>, e)))

\* ------------------------------------------------------------ setSize

setSize_Write ==
  /\ pc = "setSize_Write"
  /\ tx' = setSizeFrame(Len(data))
  /\ \E res \in WriteResults :
       /\ log' = Append(log, WrEv(tx', res, 0))
       /\ IF res = "ok" THEN Goto("setSize_ReadFrame") ELSE setSizeFail(WriteErr)
  /\ UNCHANGED <<op, data, block, offset, nsents, dev, buf, idx, readTimeout, file>>

setSize_ReadFrame ==
  /\ pc = "setSize_ReadFrame"
  /\ \E res \in ReadResults, st \in Statuses :
       LET rx == StatusFrame(rspSetSize, st)
       IN /\ res # "ok" => st = StatusOK
          /\ log' = Append(log, RdEv(rspSetSize, res, IF res = "ok" THEN rx.payload ELSE <<>>))
          /\ IF res # "ok" THEN setSizeFail(ReadErr(res))
             ELSE IF ~StatusIsOK(rx) THEN setSizeFail(<<"SetSignSize NOK">>)
             ELSE ChunkLoop(0)
  /\ UNCHANGED <<op, data, block, offset, nsents, tx, dev, buf, idx, readTimeout, file>>

\* ------------------------------------------------------------ Sign

Sign(d) ==
  /\ Call("Sign")
  /\ data' = d
  /\ block' = FALSE
  /\ Goto("setSize_Write")
  /\ UNCHANGED file

\* mutant: a failed chunk step is tried again
signLoadFail_retry(e) == Goto("signLoad_Write")

\* Sign returns signLoad's error e
signLoadFail(e) == Return(Nil, Wrap(<<"signLoad">>, e))

signLoad_Write ==
  /\ pc = "signLoad_Write"
  /\ tx' = ChunkFrame(cmdSignData, Content)
  /\ \E res \in WriteResults :
       /\ log' = Append(log, WrEv(tx', res, offset))
       /\ IF res = "ok" THEN Goto("signLoad_ReadFrame") ELSE signLoadFail(WriteErr)
  /\ UNCHANGED <<op, data, block, offset, nsents, dev, buf, idx, readTimeout, file>>

\* the read of signLoad and what Sign's loop does with the count nsent that signLoad returns
signLoadRead(nsent) ==
  /\ pc = "signLoad_ReadFrame"
  /\ \E res \in ReadResults, st \in Statuses :
       LET rx == StatusFrame(rspSignData, st)
       IN /\ res # "ok" => st = StatusOK
          /\ log' = Append(log, RdEv(rspSignData, res, IF res = "ok" THEN rx.payload ELSE <<>>))
          /\ IF res # "ok"
             THEN signLoadFail(ReadErr(res)) /\ UNCHANGED <<offset, nsents>>
             ELSE IF ~StatusIsOK(rx)
             THEN signLoadFail(<<"SignData NOK">>) /\ UNCHANGED <<offset, nsents>>
             ELSE /\ offset' = offset + nsent
                  /\ nsents' = Append(nsents, nsent)
                  /\ ChunkLoop(offset')
  /\ UNCHANGED <<op, data, block, tx, dev, buf, idx, readTimeout, file>>

signLoad_ReadFrame == signLoadRead(ChunkSent(cmdSignData, Content))

\* Sign returns getSig's error e, and no signature
getSigFail(e) == Return(Nil, Wrap(<<"getSig">>, e))

\* getSig: signatureRaw after frame k (from 0) was copied into it
getSigStore(b, k, rx) ==
  IF k = 0 THEN CopyInto(Zeros(256), 0, 127, RxFrom(rx, 2))
  ELSE IF k = 1 THEN CopyInto(b, 127, 254, RxFrom(rx, 2))
  ELSE CopyInto(b, 254, 256, RxSlice(rx, 2, 2 + 2))

\* the number of frames getSig reads
getSigFrames == 3

\* mutant: the test of rx[2] is in force
getSigStatusChecked_on == TRUE

\* getSig's test of rx[2] on its first frame is commented out
getSigStatusChecked == FALSE

getSig_Write ==
  /\ pc = "getSig_Write"
  /\ tx' = NewFrameBuf(cmdGetSig)
  /\ \E res \in WriteResults :
       /\ log' = Append(log, WrEv(tx', res, 0))
       /\ IF res = "ok" THEN Goto("getSig_ReadFrame") ELSE getSigFail(WriteErr)
  /\ dev' \in 0..MaxSeed
  /\ UNCHANGED <<op, data, block, offset, nsents, buf, idx, readTimeout, file>>

getSig_ReadFrame ==
  /\ pc = "getSig_ReadFrame"
  /\ \E res \in ReadResults :
       LET rx == DataFrame(rspGetSig, dev, idx)
       IN /\ log' = Append(log, RdEv(rspGetSig, res, IF res = "ok" THEN rx.payload ELSE <<>>))
          /\ IF res # "ok"
             THEN getSigFail(ReadErr(res)) /\ UNCHANGED <<buf, idx>>
             ELSE IF getSigStatusChecked /\ idx = 0 /\ ~StatusIsOK(rx)
             THEN getSigFail(<<"getSig NOK">>) /\ UNCHANGED <<buf, idx>>
             ELSE /\ buf' = getSigStore(buf, idx, rx)
                  /\ idx' = idx + 1
                  /\ IF idx' < getSigFrames
                     THEN Goto("getSig_ReadFrame")
                     ELSE Return(buf', Nil)
  /\ UNCHANGED <<op, data, block, offset, nsents, tx, dev, readTimeout, file>>

\* ------------------------------------------------------------ GetAppNameVersion

\* the answer to cmdGetNameVersion
NameVersionFrame(seed) == DataFrame(rspGetNameVersion, seed, 0)

\* nameVer.Unpack(raw): name0, name1 and the 4 bytes of the version
Unpack(raw) == <<SubSeq(raw, 1, 4), SubSeq(raw, 5, 8), SubSeq(raw, 9, 12)>>

GetAppNameVersion ==
  /\ Call("GetAppNameVersion")
  /\ data' = <<>>
  /\ block' = FALSE
  /\ Goto("GetAppNameVersion_Write")
  /\ UNCHANGED file

GetAppNameVersion_Write ==
  /\ pc = "GetAppNameVersion_Write"
  /\ tx' = NewFrameBuf(cmdGetNameVersion)
  /\ \E res \in WriteResults :
       /\ log' = Append(log, WrEv(tx', res, 0))
       /\ IF res = "ok" THEN Goto("GetAppNameVersion_SetReadTimeout2")
          ELSE Return(Nil, WriteErr)
  /\ dev' \in 0..MaxSeed
  /\ UNCHANGED <<op, data, block, offset, nsents, buf, idx, readTimeout, file>>

\* s.tk.SetReadTimeout(2)
GetAppNameVersion_SetReadTimeout2 ==
  /\ pc = "GetAppNameVersion_SetReadTimeout2"
  /\ \E res \in {"ok", "err"} :
       IF res = "ok"
       THEN readTimeout' = IdTimeout /\ Goto("GetAppNameVersion_ReadFrame")
       ELSE UNCHANGED readTimeout /\ Return(Nil, <<"SetReadTimeout", "io">>)
  /\ UNCHANGED <<op, data, block, offset, nsents, tx, dev, log, buf, idx, file>>

\* what GetAppNameVersion does when its ReadFrame has failed with res
GetAppNameVersionReadFail(res) ==
  /\ Return(Nil, ReadErr(res))
  /\ UNCHANGED <<buf, readTimeout>>

GetAppNameVersion_ReadFrame ==
  /\ pc = "GetAppNameVersion_ReadFrame"
  /\ \E res \in ReadResults :
       LET rx == NameVersionFrame(dev)
       IN /\ log' = Append(log, RdEv(rspGetNameVersion, res, IF res = "ok" THEN rx.payload ELSE <<>>))
          /\ IF res # "ok"
             THEN GetAppNameVersionReadFail(res)
             ELSE /\ buf' = RxFrom(rx, 2)
                  /\ Goto("GetAppNameVersion_SetReadTimeout0")
                  /\ UNCHANGED readTimeout
  /\ UNCHANGED <<op, data, block, offset, nsents, tx, dev, idx, file>>

\* s.tk.SetReadTimeout(0)
GetAppNameVersion_SetReadTimeout0 ==
  /\ pc = "GetAppNameVersion_SetReadTimeout0"
  /\ \E res \in {"ok", "err"} :
       IF res = "ok"
       THEN readTimeout' = 0 /\ Return(Unpack(buf), Nil)
       ELSE UNCHANGED readTimeout /\ Return(Nil, <<"SetReadTimeout", "io">>)
  /\ UNCHANGED <<op, data, block, offset, nsents, tx, dev, log, buf, idx, file>>

\* ------------------------------------------------------------ GetPubkey

\* GetPubkey: pubkeyRaw after frame k (from 0) was copied into it
GetPubkeyStore(b, k, rx) ==
  IF k = 0 THEN CopyInto(Zeros(256), 0, 127, RxFrom(rx, 2))
  ELSE IF k = 1 THEN CopyInto(b, 127, 254, RxFrom(rx, 2))
  ELSE CopyInto(b, 254, 256, RxSlice(rx, 2, 2 + 2))

\* the number of frames GetPubkey reads
GetPubkeyFrames == 3

GetPubkey ==
  /\ Call("GetPubkey")
  /\ data' = <<>>
  /\ block' = FALSE
  /\ Goto("GetPubkey_Write")
  /\ UNCHANGED file

GetPubkey_Write ==
  /\ pc = "GetPubkey_Write"
  /\ tx' = NewFrameBuf(cmdGetPubkey)
  /\ \E res \in WriteResults :
       /\ log' = Append(log, WrEv(tx', res, 0))
       /\ IF res = "ok" THEN Goto("GetPubkey_ReadFrame") ELSE Return(Nil, WriteErr)
  /\ dev' \in 0..MaxSeed
  /\ UNCHANGED <<op, data, block, offset, nsents, buf, idx, readTimeout, file>>

GetPubkey_ReadFrame ==
  /\ pc = "GetPubkey_ReadFrame"
  /\ \E res \in ReadResults :
       LET rx == DataFrame(rspGetPubkey, dev, idx)
       IN /\ log' = Append(log, RdEv(rspGetPubkey, res, IF res = "ok" THEN rx.payload ELSE <<>>))
          /\ IF res # "ok"
             THEN Return(Nil, ReadErr(res)) /\ UNCHANGED <<buf, idx>>
             ELSE /\ buf' = GetPubkeyStore(buf, idx, rx)
                  /\ idx' = idx + 1
                  /\ IF idx' < GetPubkeyFrames
                     THEN Goto("GetPubkey_ReadFrame")
                     ELSE Return(buf', Nil)
  /\ UNCHANGED <<op, data, block, offset, nsents, tx, dev, readTimeout, file>>

\* ------------------------------------------------------------ GetIsKeyLoaded

GetIsKeyLoaded ==
  /\ Call("GetIsKeyLoaded")
  /\ data' = <<>>
  /\ block' = FALSE
  /\ Goto("GetIsKeyLoaded_Write")
  /\ UNCHANGED file

GetIsKeyLoaded_Write ==
  /\ pc = "GetIsKeyLoaded_Write"
  /\ tx' = NewFrameBuf(cmdIsKeyLoaded)
  /\ \E res \in WriteResults :
       /\ log' = Append(log, WrEv(tx', res, 0))
       /\ IF res = "ok" THEN Goto("GetIsKeyLoaded_ReadFrame") ELSE Return(Nil, WriteErr)
  /\ UNCHANGED <<op, data, block, offset, nsents, dev, buf, idx, readTimeout, file>>

GetIsKeyLoaded_ReadFrame ==
  /\ pc = "GetIsKeyLoaded_ReadFrame"
  /\ \E res \in ReadResults, st \in {0, 1} :
       LET rx == StatusFrame(rspIsKeyLoaded, st)
       IN /\ res # "ok" => st = 0
          /\ log' = Append(log, RdEv(rspIsKeyLoaded, res, IF res = "ok" THEN rx.payload ELSE <<>>))
          /\ IF res # "ok" THEN Return(Nil, ReadErr(res))
             ELSE Return(<<rx.payload[1] = 1>>, Nil)
  /\ UNCHANGED <<op, data, block, offset, nsents, tx, dev, buf, idx, readTimeout, file>>

\* ------------------------------------------------------------ LoadKey

\* mutant: key is as long as what was read
KeyRead_exact(f, n1) == SubSeq(f, 1, n1)

\* key after f.Read(key) has read n1 bytes of the file into make([]byte, 1676)
KeyRead(f, n1) == [j \in 1..KeySize |-> IF j <= n1 THEN f[j] ELSE 0]

\* the byte counts f.Write(encrypted_key) may report
WriteCounts == {0, KeySize \div 2, KeySize}

\* mutant: the write leaves the file as it was
FileWritten_kept(f, b, n) == f

\* the file after f.Write wrote the first n bytes of b at its start (os.OpenFile
\* without O_TRUNC, so bytes beyond n stay)
FileWritten(f, b, n) ==
  [j \in 1..Max(Len(f), n) |-> IF j <= n THEN b[j] ELSE f[j]]

\* LoadKey up to its branch: os.Open, f.Read, the length test, pem.Decode
LoadKey ==
  /\ Call("LoadKey")
  /\ UNCHANGED file
  /\ \E opened \in BOOLEAN, readOk \in BOOLEAN, n1 \in {0, Min(Len(file), KeySize)} :
       /\ ~opened => (readOk /\ n1 = 0)
       /\ readOk => n1 = Min(Len(file), KeySize)
       /\ LET key == KeyRead(file, n1)
          IN IF ~opened
             THEN /\ data' = <<>>
                  /\ block' = FALSE
                  /\ Return(Nil, <<"failed to open id_rsa">>)
             ELSE /\ data' = key
                  /\ IF n1 < MinKeyRead
                     THEN block' = FALSE /\ Return(Nil, <<"did not read enough">>)
                     ELSE IF ~readOk
                     THEN block' = FALSE /\ Return(Nil, <<"failed to read">>)
                     ELSE /\ block' = PemDecode(key)
                          /\ pc' = "setSize_Write"
                          /\ UNCHANGED <<result, err>>

\* mutant: a failed chunk is reported with the context of setSize
transferPieceFail_asSetSize(e) ==
  Return(Nil, Wrap(<<"failed to encrypt", "transferKey", "setSize">>, e))

\* the contexts encryptKey and LoadKey add to an error of transferPiece
transferPieceFail(e) ==
  Return(Nil, Wrap(<<"failed to encrypt", "transferKey", "keyLoad">>, e))

transferPiece_Write ==
  /\ pc = "transferPiece_Write"
  /\ tx' = ChunkFrame(cmdLoadKey, Content)
  /\ \E res \in WriteResults :
       /\ log' = Append(log, WrEv(tx', res, offset))
       /\ IF res = "ok" THEN Goto("transferPiece_ReadFrame") ELSE transferPieceFail(WriteErr)
  /\ UNCHANGED <<op, data, block, offset, nsents, dev, buf, idx, readTimeout, file>>

\* the read of transferPiece and what transferKey's loop does with the count nsent that transferPiece returns
transferPieceRead(nsent) ==
  /\ pc = "transferPiece_ReadFrame"
  /\ \E res \in ReadResults, st \in Statuses :
       LET rx == StatusFrame(rspSignData, st)
       IN /\ res # "ok" => st = StatusOK
          /\ log' = Append(log, RdEv(rspSignData, res, IF res = "ok" THEN rx.payload ELSE <<>>))
          /\ IF res # "ok"
             THEN transferPieceFail(ReadErr(res)) /\ UNCHANGED <<offset, nsents>>
             ELSE IF ~StatusIsOK(rx)
             THEN transferPieceFail(<<"SignData NOK">>) /\ UNCHANGED <<offset, nsents>>
             ELSE /\ offset' = offset + nsent
                  /\ nsents' = Append(nsents, nsent)
                  /\ ChunkLoop(offset')
  /\ UNCHANGED <<op, data, block, tx, dev, buf, idx, readTimeout, file>>

transferPiece_ReadFrame == transferPieceRead(ChunkSent(cmdLoadKey, Content))

\* the contexts LoadKey adds to an error of keyEncLoad
keyEncLoadFail(e) == Return(Nil, Wrap(<<"failed load keye", "keyLoad">>, e))

keyEncLoad_Write ==
  /\ pc = "keyEncLoad_Write"
  /\ tx' = ChunkFrame(cmdLoadEncKey, Content)
  /\ \E res \in WriteResults :
       /\ log' = Append(log, WrEv(tx', res, offset))
       /\ IF res = "ok" THEN Goto("keyEncLoad_ReadFrame") ELSE keyEncLoadFail(WriteErr)
  /\ UNCHANGED <<op, data, block, offset, nsents, dev, buf, idx, readTimeout, file>>

\* the read of keyEncLoad and what loadEncKey's loop does with the count nsent that keyEncLoad returns
keyEncLoadRead(nsent) ==
  /\ pc = "keyEncLoad_ReadFrame"
  /\ \E res \in ReadResults, st \in Statuses :
       LET rx == StatusFrame(rspSignData, st)
       IN /\ res # "ok" => st = StatusOK
          /\ log' = Append(log, RdEv(rspSignData, res, IF res = "ok" THEN rx.payload ELSE <<>>))
          /\ IF res # "ok"
             THEN keyEncLoadFail(ReadErr(res)) /\ UNCHANGED <<offset, nsents>>
             ELSE IF ~StatusIsOK(rx)
             THEN keyEncLoadFail(<<"SignData NOK">>) /\ UNCHANGED <<offset, nsents>>
             ELSE /\ offset' = offset + nsent
                  /\ nsents' = Append(nsents, nsent)
                  /\ ChunkLoop(offset')
  /\ UNCHANGED <<op, data, block, tx, dev, buf, idx, readTimeout, file>>

keyEncLoad_ReadFrame == keyEncLoadRead(ChunkSent(cmdLoadEncKey, Content))

\* the contexts encryptKey and LoadKey add to an error of keyEncrypt
keyEncryptFail(e) == Return(Nil, Wrap(<<"failed to encrypt", "zv">>, e))

\* mutant: the tail lands one byte early
keyEncryptStore_early(b, i, rx) ==
  IF i < EncFullFrames
  THEN CopyInto(b, i * 127, i * 127 + 127, RxFrom(rx, 2))
  ELSE CopyInto(b, 1650, KeySize, RxSlice(rx, 2, 2 + 25))

\* keyEncrypt: rsp after frame i (from 0) was copied into it
keyEncryptStore(b, i, rx) ==
  IF i < EncFullFrames
  THEN CopyInto(b, i * 127, i * 127 + 127, RxFrom(rx, 2))
  ELSE CopyInto(b, 1651, KeySize, RxSlice(rx, 2, 2 + 25))

\* keyEncrypt: the count copy reported for frame i
keyEncryptCopied(i, rx) ==
  IF i < EncFullFrames
  THEN CopyCount(i * 127, i * 127 + 127, RxFrom(rx, 2))
  ELSE CopyCount(1651, KeySize, RxSlice(rx, 2, 2 + 25))

\* mutant: the encrypted key is parsed without being persisted
AfterEncrypt_skip == "parseKey_Write"

\* where LoadKey goes when encryptKey has returned the encrypted key: it persists it
AfterEncrypt == "LoadKey_Persist"

keyEncrypt_Write ==
  /\ pc = "keyEncrypt_Write"
  /\ tx' = NewFrameBuf(cmdEncryptKey)
  /\ \E res \in WriteResults :
       /\ log' = Append(log, WrEv(tx', res, 0))
       /\ IF res = "ok"
          THEN buf' = Zeros(KeySize) /\ Goto("keyEncrypt_ReadFrame")
          ELSE buf' = buf /\ keyEncryptFail(WriteErr)
  /\ dev' \in 0..MaxSeed
  /\ idx' = 0
  /\ UNCHANGED <<op, data, block, offset, nsents, readTimeout, file>>

keyEncrypt_ReadFrame ==
  /\ pc = "keyEncrypt_ReadFrame"
  /\ \E res \in ReadResults :
       LET rx == DataFrame(rspEncryptKey, dev, idx)
           want == IF idx < EncFullFrames THEN 127 ELSE 25
       IN /\ log' = Append(log, RdEv(rspEncryptKey, res, IF res = "ok" THEN rx.payload ELSE <<>>))
          /\ IF res # "ok"
             THEN keyEncryptFail(ReadErr(res)) /\ UNCHANGED <<buf, idx>>
             ELSE /\ buf' = keyEncryptStore(buf, idx, rx)
                  /\ idx' = idx + 1
                  /\ IF keyEncryptCopied(idx, rx) # want
                     THEN keyEncryptFail(<<"ReadFrame copied">>)
                     ELSE IF idx < EncFullFrames
                     THEN Goto("keyEncrypt_ReadFrame")
                     ELSE Goto(AfterEncrypt)
  /\ UNCHANGED <<op, data, block, offset, nsents, tx, dev, readTimeout, file>>

\* LoadKey persists the encrypted key: os.OpenFile, f.Write and its two tests
LoadKey_Persist ==
  /\ pc = "LoadKey_Persist"
  /\ \E opened \in BOOLEAN, n \in WriteCounts :
       /\ ~opened => n = 0
       /\ IF ~opened
          THEN UNCHANGED <<file, log>> /\ Return(Nil, <<"failed to open id_rsa for write">>)
          ELSE /\ file' = FileWritten(file, buf, n)
               /\ log' = Append(log, FileEv(n))
               /\ IF n # Len(data)
                  THEN Return(Nil, <<"did not write enough data">>)
                  ELSE Goto("parseKey_Write")
  /\ UNCHANGED <<op, data, block, offset, nsents, tx, dev, buf, idx, readTimeout>>

\* LoadKey returns parseKey's error e
parseKeyFail(e) == Return(Nil, Wrap(<<"parseKey">>, e))

parseKey_Write ==
  /\ pc = "parseKey_Write"
  /\ tx' = NewFrameBuf(cmdParseKey)
  /\ \E res \in WriteResults :
       /\ log' = Append(log, WrEv(tx', res, 0))
       /\ IF res = "ok" THEN Goto("parseKey_ReadFrame") ELSE parseKeyFail(WriteErr)
  /\ UNCHANGED <<op, data, block, offset, nsents, dev, buf, idx, readTimeout, file>>

parseKey_ReadFrame ==
  /\ pc = "parseKey_ReadFrame"
  /\ \E res \in ReadResults, st \in Statuses :
       LET rx == StatusFrame(rspParseKey, st)
       IN /\ res # "ok" => st = StatusOK
          /\ log' = Append(log, RdEv(rspParseKey, res, IF res = "ok" THEN rx.payload ELSE <<>>))
          /\ IF res # "ok" THEN parseKeyFail(ReadErr(res))
             ELSE IF ~StatusIsOK(rx) THEN parseKeyFail(<<"parseKey NOK">>)
             ELSE Return(Nil, Nil)
  /\ UNCHANGED <<op, data, block, offset, nsents, tx, dev, buf, idx, readTimeout, file>>

\* LoadKey returns decryptKey's error e
decryptKeyFail(e) == Return(Nil, Wrap(<<"decryptKey">>, e))

\* where LoadKey goes when decryptKey has returned nil: it calls parseKey
AfterDecrypt == "parseKey_Write"

decryptKey_Write ==
  /\ pc = "decryptKey_Write"
  /\ tx' = NewFrameBuf(cmdDecryptKey)
  /\ \E res \in WriteResults :
       /\ log' = Append(log, WrEv(tx', res, 0))
       /\ IF res = "ok" THEN Goto("decryptKey_ReadFrame") ELSE decryptKeyFail(WriteErr)
  /\ UNCHANGED <<op, data, block, offset, nsents, dev, buf, idx, readTimeout, file>>

decryptKey_ReadFrame ==
  /\ pc = "decryptKey_ReadFrame"
  /\ \E res \in ReadResults, st \in Statuses :
       LET rx == StatusFrame(rspDecryptKey, st)
       IN /\ res # "ok" => st = StatusOK
          /\ log' = Append(log, RdEv(rspDecryptKey, res, IF res = "ok" THEN rx.payload ELSE <<>>))
          /\ IF res # "ok" THEN decryptKeyFail(ReadErr(res))
             ELSE IF ~StatusIsOK(rx) THEN decryptKeyFail(<<"decryptKey NOK">>)
             ELSE Goto(AfterDecrypt)
  /\ UNCHANGED <<op, data, block, offset, nsents, tx, dev, buf, idx, readTimeout, file>>

\* ------------------------------------------------------------ GetFWDigest

\* mutant: the low 16 bits of the length go out high byte first
GetFWDigestFrame_be(len) ==
  [code |-> cmdGetFirmwareHash.code,
   payload |-> [j \in 1..PayloadLen(cmdGetFirmwareHash) |->
                  IF j <= 2 THEN ByteOf(len, 2 - j)
                  ELSE IF j <= 4 THEN ByteOf(len, j - 1)
                  ELSE 0]]

\* GetFWDigest's request: len as 4 little-endian bytes at tx[2..5]
GetFWDigestFrame(len) ==
  [code |-> cmdGetFirmwareHash.code,
   payload |-> [j \in 1..PayloadLen(cmdGetFirmwareHash) |->
                  IF j <= 4 THEN ByteOf(len, j - 1) ELSE 0]]

\* the answer to cmdGetFirmwareHash: the status byte, then the digest
DigestFrame(seed, st) ==
  [code |-> rspGetFirmwareHash.code,
   payload |-> [j \in 1..PayloadLen(rspGetFirmwareHash) |->
                  IF j = 1 THEN st ELSE DevByte(seed, 0, j)]]

\* GetFWDigest keeps its argument in data until the frame is built
GetFWDigest(len) ==
  /\ Call("GetFWDigest")
  /\ data' = <<len>>
  /\ block' = FALSE
  /\ Goto("GetFWDigest_Write")
  /\ UNCHANGED file

GetFWDigest_Write ==
  /\ pc = "GetFWDigest_Write"
  /\ tx' = GetFWDigestFrame(data[1])
  /\ \E res \in WriteResults :
       /\ log' = Append(log, WrEv(tx', res, 0))
       /\ IF res = "ok" THEN Goto("GetFWDigest_ReadFrame") ELSE Return(Nil, WriteErr)
  /\ dev' \in 0..MaxSeed
  /\ UNCHANGED <<op, data, block, offset, nsents, buf, idx, readTimeout, file>>

GetFWDigest_ReadFrame ==
  /\ pc = "GetFWDigest_ReadFrame"
  /\ \E res \in ReadResults, st \in Statuses :
       LET rx == DigestFrame(dev, st)
       IN /\ res # "ok" => st = StatusOK
          /\ log' = Append(log, RdEv(rspGetFirmwareHash, res, IF res = "ok" THEN rx.payload ELSE <<>>))
          /\ IF res # "ok" THEN Return(Nil, ReadErr(res))
             ELSE IF ~StatusIsOK(rx) THEN Return(Nil, <<"GetFirmwareHash NOK">>)
             ELSE Return(RxSlice(rx, 3, 3 + DigestSize), Nil)
  /\ UNCHANGED <<op, data, block, offset, nsents, tx, dev, buf, idx, readTimeout, file>>

\* ------------------------------------------------------------ specifications

Next ==
  \/ GetAppNameVersion
  \/ GetAppNameVersion_Write
  \/ GetAppNameVersion_SetReadTimeout2
  \/ GetAppNameVersion_ReadFrame
  \/ GetAppNameVersion_SetReadTimeout0
  \/ GetPubkey
  \/ GetPubkey_Write
  \/ GetPubkey_ReadFrame
  \/ \E k \in 0..MaxMsgUnits : Sign(Message(k * MsgUnit))
  \/ setSize_Write
  \/ setSize_ReadFrame
  \/ signLoad_Write
  \/ signLoad_ReadFrame
  \/ getSig_Write
  \/ getSig_ReadFrame
  \/ GetIsKeyLoaded
  \/ GetIsKeyLoaded_Write
  \/ GetIsKeyLoaded_ReadFrame
  \/ LoadKey
  \/ transferPiece_Write
  \/ transferPiece_ReadFrame
  \/ keyEncLoad_Write
  \/ keyEncLoad_ReadFrame
  \/ keyEncrypt_Write
  \/ keyEncrypt_ReadFrame
  \/ LoadKey_Persist
  \/ decryptKey_Write
  \/ decryptKey_ReadFrame
  \/ parseKey_Write
  \/ parseKey_ReadFrame
  \/ \E len \in FWLens : GetFWDigest(len)
  \/ GetFWDigest_Write
  \/ GetFWDigest_ReadFrame
  \/ Idle

\* every public operation, one call after another on one connection
Spec == Init /\ [][Next]_vars

SignLens == (0..MaxSignLen) \cup ((MaxSignSize - 1)..(MaxSignSize + MaxOver))

NextSign ==
  \/ \E n \in SignLens : Sign(Message(n))
  \/ setSize_Write
  \/ setSize_ReadFrame
  \/ signLoad_Write
  \/ signLoad_ReadFrame
  \/ getSig_Write
  \/ getSig_ReadFrame
  \/ Idle

InitSign ==
  /\ pc = "idle"
  /\ op = "none"
  /\ data = <<>>
  /\ block = FALSE
  /\ offset = 0
  /\ nsents = <<>>
  /\ tx = NoFrame
  /\ dev = 0
  /\ log = <<>>
  /\ buf = <<>>
  /\ idx = 0
  /\ result = Nil
  /\ err = Nil
  /\ readTimeout = 0
  /\ file = <<>>

\* Sign alone, on every message length up to MaxSignLen
SpecSign == InitSign /\ [][NextSign]_vars

\* the counts a chunk step reports when it may report more than it copied: the
\* bytes copied, or (once in an operation) up to MaxExtra more
Reported(cmd) ==
  {ChunkSent(cmd, Content) + x :
     x \in IF offset = 127 * Len(nsents) THEN 0..MaxExtra ELSE {0}}

signLoad_Reported == \E n \in Reported(cmdSignData) : signLoadRead(n)

transferPiece_Reported == \E n \in Reported(cmdLoadKey) : transferPieceRead(n)

keyEncLoad_Reported == \E n \in Reported(cmdLoadEncKey) : keyEncLoadRead(n)

NextGuard ==
  \/ \E k \in 0..MaxMsgUnits : Sign(Message(k * MsgUnit))
  \/ setSize_Write
  \/ setSize_ReadFrame
  \/ signLoad_Write
  \/ signLoad_Reported
  \/ getSig_Write
  \/ getSig_ReadFrame
  \/ LoadKey
  \/ transferPiece_Write
  \/ transferPiece_Reported
  \/ keyEncLoad_Write
  \/ keyEncLoad_Reported
  \/ keyEncrypt_Write
  \/ keyEncrypt_ReadFrame
  \/ LoadKey_Persist
  \/ decryptKey_Write
  \/ decryptKey_ReadFrame
  \/ parseKey_Write
  \/ parseKey_ReadFrame
  \/ Idle

\* Sign and LoadKey with the count of a chunk step as an input of the loops
SpecGuard == Init /\ [][NextGuard]_vars

\* ------------------------------------------------------------ reading the log

\* the kind and code of every entry of a log
KindCode(l) == [i \in 1..Len(l) |-> <<l[i].kind, l[i].code>>]

IsPrefix(a, b) == Len(a) <= Len(b) /\ \A i \in 1..Len(a) : a[i] = b[i]

RECURSIVE Repeat(_, _)
Repeat(s, k) == IF k = 0 THEN <<>> ELSE s \o Repeat(s, k - 1)

\* one write of cmd followed by nreads reads expecting rsp
Exchange(cmd, rsp, nreads) ==
  <<<<"w", cmd.code>>>> \o [i \in 1..nreads |-> <<"r", rsp.code>>]

\* the responses whose status byte the code tests
StatusCodes ==
  {rspSetSize.code, rspSignData.code, rspDecryptKey.code, rspParseKey.code,
   rspGetFirmwareHash.code}

\* a frame was read and its status byte is not success
BadStatus(e) ==
  e.kind = "r" /\ e.res = "ok" /\ e.code \in StatusCodes /\ e.payload[1] # StatusOK

\* a transport call failed
TransportFailed(e) == e.kind \in {"w", "r"} /\ e.res # "ok"

\* the step of the entry failed: the call, the status, or a short file write
Failed(e) == e.res # "ok" \/ BadStatus(e)

Indices(l, P(_)) == {i \in 1..Len(l) : P(l[i])}

IsWrite(e) == e.kind = "w"

IsRead(e) == e.kind = "r"

\* the size a set-payload-size frame declares
DeclaredSize(payload) ==
  payload[1] + 256 * payload[2] + 65536 * payload[3] + 16777216 * payload[4]

\* ------------------------------------------------------------ C1

\* the exchanges of a Sign of n bytes that meets no failure
SignPlan(n) ==
  Exchange(cmdSetSize, rspSetSize, 1)
    \o Repeat(Exchange(cmdSignData, rspSignData, 1), CeilDiv(n, 127))
    \o Exchange(cmdGetSig, rspGetSig, 3)

\* C1: Sign performs one set-payload-size exchange declaring len(message), then
\* one sign-chunk exchange per chunk, then one get-signature write and 3 reads;
\* get-signature is written only after every earlier step succeeded; Sign
\* returns either an error and no bytes, or the whole plan's 256-byte signature.
C1_SignOrder ==
  op = "Sign" =>
    /\ IsPrefix(KindCode(log), SignPlan(Len(data)))
    /\ pc = "setSize_ReadFrame" => DeclaredSize(tx.payload) = Len(data)
    /\ \A i \in 1..Len(log) :
         (log[i].kind = "w" /\ log[i].code = cmdGetSig.code)
           => \A q \in 1..(i - 1) : ~Failed(log[q])
    /\ (\E i \in 1..Len(log) : Failed(log[i])) => (pc = "done" /\ err # Nil)
    /\ pc # "done" => result = Nil
    /\ pc = "done" =>
         IF err = Nil
         THEN Len(result) = 256 /\ KindCode(log) = SignPlan(Len(data))
         ELSE result = Nil

\* a 500-byte message was signed: 4 chunks, then the signature
C1_Witness ==
  /\ op = "Sign"
  /\ pc = "done"
  /\ err = Nil
  /\ Len(data) = 500
  /\ Len(result) = 256
  /\ Cardinality(Indices(log, IsWrite)) = 6

\* ------------------------------------------------------------ C3

\* the set-size exchange and every chunk exchange so far succeeded, and the
\* chunking loop is not inside a chunk step
ChunkingDone ==
  /\ op = "Sign"
  /\ Len(log) >= 2
  /\ pc \notin {"setSize_ReadFrame", "signLoad_Write", "signLoad_ReadFrame"}
  /\ \A i \in 1..Len(log) :
       log[i].code \in {cmdSetSize.code, rspSetSize.code, cmdSignData.code, rspSignData.code}
         => ~Failed(log[i])

ChunkWrites == {i \in 1..Len(log) : log[i].kind = "w" /\ log[i].code = cmdSignData.code}

\* C3: for a payload of L bytes whose chunks are all acknowledged, the loop
\* writes exactly ceil(L / 127) chunk frames, counts 127 bytes for every chunk
\* but the last and L - 127 * (ceil(L / 127) - 1) for the last, L bytes in all;
\* for L = 0 it writes no chunk frame.
C3_ChunkRoundTrip ==
  LET L == Len(data)
      c == CeilDiv(L, 127)
  IN /\ (op = "Sign" /\ L = 0) => ChunkWrites = {}
     /\ ChunkingDone =>
          /\ Cardinality(ChunkWrites) = c
          /\ Len(nsents) = c
          /\ SumSeq(nsents) = L
          /\ offset = L
          /\ \A k \in 1..c : nsents[k] = IF k < c THEN 127 ELSE L - 127 * (c - 1)
          /\ pc \in {"getSig_Write", "getSig_ReadFrame", "done"}
          /\ pc = "done" => Len(log) > 2 * c + 2

\* a message of MaxSignSize bytes went out in 33 chunks, the last of 32 bytes
C3_Witness ==
  /\ ChunkingDone
  /\ pc = "getSig_Write"
  /\ Len(data) = MaxSignSize
  /\ Len(nsents) = 33
  /\ nsents[33] = 32

\* ------------------------------------------------------------ C7

\* C7: Sign of a message longer than MaxSignSize fails instead of returning a
\* signature.
C7_SignRejectsOversize ==
  (op = "Sign" /\ pc = "done" /\ Len(data) > MaxSignSize) => (err # Nil /\ result = Nil)

\* ------------------------------------------------------------ C2

\* C2: a response frame that carries a non-success status byte, in any step that
\* checks one, is the last transport call of its operation: the operation
\* (Sign, LoadKey or GetFWDigest) has returned an error and no value.
C2_StatusGate ==
  \A i \in 1..Len(log) :
    BadStatus(log[i]) =>
      /\ i = Len(log)
      /\ pc = "done"
      /\ err # Nil
      /\ result = Nil
      /\ op \in {"Sign", "LoadKey", "GetFWDigest"}

\* decrypt-key answered with a bad status after the 14 chunks of the key
C2_Witness ==
  /\ op = "LoadKey"
  /\ pc = "done"
  /\ Len(log) = 32
  /\ log[32].code = rspDecryptKey.code
  /\ BadStatus(log[32])
  /\ err = <<"decryptKey", "decryptKey NOK">>

\* ------------------------------------------------------------ C4

\* the frames read so far that expected rsp
ReadsOf(rsp) == SelectSeq(log, LAMBDA e : e.kind = "r" /\ e.code = rsp.code)

AllReadOk(fs) == \A i \in 1..Len(fs) : fs[i].res = "ok"

\* n bytes taken 127 per frame, in frame order, from the start of each payload
Reassembled(fs, n) ==
  [j \in 1..n |-> fs[((j - 1) \div 127) + 1].payload[((j - 1) % 127) + 1]]

\* C4: GetPubkey and getSig read exactly 3 frames and return 256 bytes: the
\* first 127 payload bytes of frames 1 and 2, then the first 2 of frame 3;
\* keyEncrypt reads exactly 14 frames and returns 1676 bytes: the first 127
\* payload bytes of each of 13 frames, then the first 25 of the 14th.
C4_Reassembly ==
  /\ op = "GetPubkey" =>
       LET fs == ReadsOf(rspGetPubkey)
       IN /\ Len(fs) <= 3
          /\ (pc = "done" /\ err = Nil) => Len(fs) = 3
          /\ (Len(fs) = 3 /\ AllReadOk(fs)) =>
               (pc = "done" /\ err = Nil /\ result = Reassembled(fs, 256))
  /\ op = "Sign" =>
       LET fs == ReadsOf(rspGetSig)
       IN /\ Len(fs) <= 3
          /\ (pc = "done" /\ err = Nil) => Len(fs) = 3
          /\ (Len(fs) = 3 /\ AllReadOk(fs)) =>
               (pc = "done" /\ err = Nil /\ result = Reassembled(fs, 256))
  /\ op = "LoadKey" =>
       LET fs == ReadsOf(rspEncryptKey)
       IN /\ Len(fs) <= 14
          /\ pc = "LoadKey_Persist" => Len(fs) = 14
          /\ (Len(fs) = 14 /\ AllReadOk(fs)) =>
               (pc # "keyEncrypt_ReadFrame" /\ buf = Reassembled(fs, KeySize))

\* keyEncrypt has returned the 1676 bytes of 14 frames
C4_Witness ==
  /\ op = "LoadKey"
  /\ pc = "LoadKey_Persist"
  /\ Len(ReadsOf(rspEncryptKey)) = 14
  /\ Len(buf) = 1676
  /\ buf[1676] = ReadsOf(rspEncryptKey)[14].payload[25]
  /\ buf[1651] = ReadsOf(rspEncryptKey)[13].payload[127]

\* ------------------------------------------------------------ C5

\* the steps of LoadKey on a PEM key that meets no failure
PemPlan ==
  Exchange(cmdSetSize, rspSetSize, 1)
    \o Repeat(Exchange(cmdLoadKey, rspSignData, 1), 14)
    \o Exchange(cmdEncryptKey, rspEncryptKey, 14)
    \o <<<<"f", 0>>>>
    \o Exchange(cmdParseKey, rspParseKey, 1)

\* the key file still holds the bytes LoadKey read from it
FileUntouched == data = KeyRead(file, Min(Len(file), KeySize))

\* C5: on a PEM key LoadKey transfers the key in load-key chunks, then runs
\* encrypt-key (1 write, 14 reads), then writes the file, then runs parse-key;
\* a step that fails is the last one, so nothing is written to the file and
\* parse-key is not written when the transfer or encrypt-key failed.
C5_PemOrder ==
  (op = "LoadKey" /\ block) =>
    /\ IsPrefix(KindCode(log), PemPlan)
    /\ \A i \in 1..Len(log) :
         Failed(log[i]) => (i = Len(log) /\ pc = "done" /\ err # Nil)
    /\ (\A i \in 1..Len(log) : log[i].kind # "f") => FileUntouched
    /\ (pc = "done" /\ err = Nil) => KindCode(log) = PemPlan

\* the PEM key was transferred, encrypted, persisted and parsed
C5_Witness ==
  /\ op = "LoadKey"
  /\ block
  /\ pc = "done"
  /\ err = Nil
  /\ Len(log) = 48
  /\ ~FileUntouched

\* ------------------------------------------------------------ C6

\* the steps of LoadKey on a device-encrypted key that meets no failure
EncPlan ==
  Exchange(cmdSetSize, rspSetSize, 1)
    \o Repeat(Exchange(cmdLoadEncKey, rspSignData, 1), 14)
    \o Exchange(cmdDecryptKey, rspDecryptKey, 1)
    \o Exchange(cmdParseKey, rspParseKey, 1)

\* C6: on a key that is not PEM LoadKey transfers it in load-encrypted-key
\* chunks, then runs decrypt-key, then parse-key; each step is taken only when
\* every earlier one succeeded, LoadKey returns nil only after parse-key's
\* success status, and encrypt-key is never written.
C6_EncOrder ==
  (op = "LoadKey" /\ ~block) =>
    /\ IsPrefix(KindCode(log), EncPlan)
    /\ \A i \in 1..Len(log) :
         Failed(log[i]) => (i = Len(log) /\ pc = "done" /\ err # Nil)
    /\ \A i \in 1..Len(log) : log[i].code # cmdEncryptKey.code
    /\ (pc = "done" /\ err = Nil) =>
         /\ KindCode(log) = EncPlan
         /\ log[Len(log)].code = rspParseKey.code
         /\ log[Len(log)].payload[1] = StatusOK

\* the device-encrypted key was transferred, decrypted and parsed
C6_Witness ==
  /\ op = "LoadKey"
  /\ ~block
  /\ pc = "done"
  /\ err = Nil
  /\ Len(log) = 34

\* ------------------------------------------------------------ C8

\* C8: when GetAppNameVersion returns after it set the read timeout (so after
\* its read), the connection's read timeout is 0 again.
C8_TimeoutRestored ==
  (op = "GetAppNameVersion" /\ pc = "done" /\ Indices(log, IsRead) # {})
    => readTimeout = 0

\* ------------------------------------------------------------ C9

\* C9: a failed write or read is the last transport call of its operation,
\* which has returned an error; and no step's command frame is written twice.
C9_NoRetries ==
  /\ \A i \in 1..Len(log) :
       TransportFailed(log[i]) => (i = Len(log) /\ pc = "done" /\ err # Nil)
  /\ \A i, j \in Indices(log, IsWrite) :
       (log[i].code = log[j].code /\ log[i].off = log[j].off) => i = j

\* the read of the 5th key chunk's acknowledgement failed
C9_Witness ==
  /\ op = "LoadKey"
  /\ pc = "done"
  /\ Len(log) = 12
  /\ TransportFailed(log[12])
  /\ log[12].kind = "r"
  /\ err # Nil

\* ------------------------------------------------------------ C10

\* the transport calls of the log
Transport == SelectSeq(log, LAMBDA e : e.kind \in {"w", "r"})

\* the response frames a command is answered with
ReadsExpected(code) ==
  IF code \in {cmdGetPubkey.code, cmdGetSig.code} THEN 3
  ELSE IF code = cmdEncryptKey.code THEN 14
  ELSE 1

\* C10: an operation's first transport call is a write, and a command frame is
\* written only when every response frame of the command written before it has
\* been read (1, or 3 for get-public-key and get-signature, or 14 for
\* encrypt-key); no more frames are read than the command is answered with.
C10_Synchronous ==
  LET t == Transport
      W == {i \in 1..Len(t) : t[i].kind = "w"}
      Prev(i) == CHOOSE j \in W : j < i /\ \A k \in W : k < i => k <= j
  IN /\ Len(t) > 0 => t[1].kind = "w"
     /\ \A i \in W : i > 1 =>
          /\ i - Prev(i) - 1 = ReadsExpected(t[Prev(i)].code)
          /\ \A k \in (Prev(i) + 1)..(i - 1) : t[k].res = "ok"
     /\ Len(t) > 0 => Len(t) - Prev(Len(t) + 1) <= ReadsExpected(t[Prev(Len(t) + 1)].code)

\* parse-key is written after the 14 frames of encrypt-key were read
C10_Witness ==
  /\ op = "LoadKey"
  /\ block
  /\ pc = "parseKey_ReadFrame"
  /\ Len(Transport) = 46
  /\ Transport[31].code = cmdEncryptKey.code
  /\ Transport[46].code = cmdParseKey.code

\* ------------------------------------------------------------ C11

\* the key file is still the one LoadKey opened: nothing was persisted to it
FileIsInput == \A i \in 1..Len(log) : log[i].kind # "f"

\* f.Read filled key with all of the file that fits
ReadAll == data = KeyRead(file, Min(Len(file), KeySize))

\* the errors LoadKey returns before it talks to the device
InputErrors == {<<"failed to open id_rsa">>, <<"did not read enough">>, <<"failed to read">>}

\* C11: a key file that is neither PEM text nor a non-PEM blob of exactly
\* 1676 bytes makes LoadKey fail with an input error before any frame is
\* written; and a PEM key file that was read in full is never rejected for its
\* length.
C11_InputValidation ==
  (op = "LoadKey" /\ FileIsInput) =>
    /\ (~PemDecode(file) /\ Len(file) # KeySize) =>
         (pc = "done" /\ log = <<>> /\ err \in InputErrors)
    /\ (PemDecode(file) /\ ReadAll) => err # <<"did not read enough">>

\* ------------------------------------------------------------ C12

\* C12: GetFWDigest(len) writes one frame that carries len as 4 little-endian
\* bytes at tx[2..5] (8192 as 00 20 00 00) and zeros after them, then reads one
\* frame; with a success status at rx[2] it returns exactly the 64 bytes
\* rx[3:67], with any other status it returns an error and no digest.
C12_FWDigest ==
  op = "GetFWDigest" =>
    /\ IsPrefix(KindCode(log), Exchange(cmdGetFirmwareHash, rspGetFirmwareHash, 1))
    /\ Len(log) >= 1 =>
         /\ tx.code = cmdGetFirmwareHash.code
         /\ Len(tx.payload) = 31
         /\ \A j \in 1..31 : tx.payload[j] \in 0..255
         /\ DeclaredSize(tx.payload) = data[1]
         /\ \A j \in 5..31 : tx.payload[j] = 0
         /\ data[1] = 8192 => SubSeq(tx.payload, 1, 4) = <<0, 32, 0, 0>>
    /\ (Len(log) = 2 /\ log[2].res = "ok") =>
         /\ pc = "done"
         /\ IF log[2].payload[1] = StatusOK
            THEN /\ err = Nil
                 /\ Len(result) = 64
                 /\ \A j \in 1..64 : result[j] = log[2].payload[j + 1]
            ELSE err # Nil /\ result = Nil
    /\ (pc = "done" /\ err = Nil) =>
         (Len(log) = 2 /\ log[2].res = "ok" /\ log[2].payload[1] = StatusOK)

\* the digest of 8192 bytes of firmware was asked for and returned
C12_Witness ==
  /\ op = "GetFWDigest"
  /\ pc = "done"
  /\ err = Nil
  /\ data = <<8192>>
  /\ SubSeq(tx.payload, 1, 4) = <<0, 32, 0, 0>>
  /\ Len(result) = 64
  /\ result[64] = log[2].payload[65]

\* ------------------------------------------------------------ C13

\* the commands that follow the chunking loop in Sign, encryptKey and LoadKey
AfterChunking == {cmdGetSig.code, cmdEncryptKey.code, cmdDecryptKey.code}

\* C13: when the count a chunk step reports moves the cursor past len(data),
\* the operation returns the error 'transmitted more than expected' and no
\* value, the chunk's acknowledgement is its last transport call, and
\* get-signature, encrypt-key and decrypt-key are not written.
C13_OvershootGuard ==
  (op \in {"Sign", "LoadKey"} /\ offset > Len(data)) =>
    /\ pc = "done"
    /\ result = Nil
    /\ err # Nil
    /\ err[Len(err)] = "transmitted more than expected"
    /\ log[Len(log)].kind = "r"
    /\ log[Len(log)].code = rspSignData.code
    /\ \A i \in 1..Len(log) : log[i].code \notin AfterChunking
    /\ FileIsInput

\* the last load-key chunk was reported as 26 bytes instead of 25
C13_Witness ==
  /\ op = "LoadKey"
  /\ block
  /\ pc = "done"
  /\ Len(nsents) = 14
  /\ nsents[14] = 26
  /\ offset = KeySize + 1
  /\ err = <<"failed to encrypt", "transferKey", "transmitted more than expected">>

\* ------------------------------------------------------------ C14

\* the successful write of cmd is in the log
Written(cmd) == \E i \in 1..Len(log) : log[i] = WrEv(NewFrameBuf(cmd), "ok", 0)

\* the operation ended on a failed read of a frame of rsp
EndedOnFailedRead(rsp) ==
  /\ log[Len(log)].kind = "r"
  /\ log[Len(log)].code = rsp.code
  /\ log[Len(log)].res # "ok"
  /\ err[Len(err) - 1] = "ReadFrame"

\* C14: GetPubkey and getSig test no byte of the frames they read: once the
\* command is written, three frames read without a read failure give a 256-byte
\* result whatever the frames hold, and the operation fails only on a failed
\* read.
C14_NoStatusChecked ==
  /\ (op = "GetPubkey" /\ Written(cmdGetPubkey)) =>
       LET fs == ReadsOf(rspGetPubkey)
       IN /\ (Len(fs) = 3 /\ AllReadOk(fs)) =>
               (pc = "done" /\ err = Nil /\ Len(result) = 256)
          /\ (pc = "done" /\ err # Nil) =>
               (result = Nil /\ EndedOnFailedRead(rspGetPubkey))
  /\ (op = "Sign" /\ Written(cmdGetSig)) =>
       LET fs == ReadsOf(rspGetSig)
       IN /\ (Len(fs) = 3 /\ AllReadOk(fs)) =>
               (pc = "done" /\ err = Nil /\ Len(result) = 256)
          /\ (pc = "done" /\ err # Nil) =>
               (result = Nil /\ EndedOnFailedRead(rspGetSig))

\* a signature was returned though none of its frames starts with StatusOK
C14_Witness ==
  /\ op = "Sign"
  /\ pc = "done"
  /\ err = Nil
  /\ Len(result) = 256
  /\ \A k \in 1..3 : ReadsOf(rspGetSig)[k].payload[1] # StatusOK
  /\ result[1] = ReadsOf(rspGetSig)[1].payload[1]

\* ------------------------------------------------------------ C15

\* the request and the response descriptors of the registry
Requests ==
  {cmdGetPubkey, cmdSetSize, cmdSignData, cmdGetSig, cmdGetNameVersion,
   cmdGetFirmwareHash, cmdLoadKey, cmdEncryptKey, cmdLoadEncKey, cmdIsKeyLoaded,
   cmdDecryptKey, cmdParseKey}

Responses ==
  {rspGetPubkey, rspSetSize, rspSignData, rspGetSig, rspGetNameVersion,
   rspGetFirmwareHash, rspEncryptKey, rspIsKeyLoaded, rspDecryptKey, rspParseKey}

\* the response opcode the wire command table pairs with a request opcode
PairedRsp(c) ==
  CASE c = 1 -> 2
    [] c = 3 -> 4
    [] c = 5 -> 6
    [] c = 7 -> 8
    [] c = 9 -> 10
    [] c = 11 -> 12
    [] c = 13 -> 6
    [] c = 14 -> 15
    [] c = 16 -> 6
    [] c = 17 -> 18
    [] c = 19 -> 20
    [] c = 21 -> 22
    [] OTHER -> 0

\* the last write before entry i of the log
LastWrite(i) ==
  CHOOSE j \in 1..(i - 1) :
    log[j].kind = "w" /\ \A k \in (j + 1)..(i - 1) : log[k].kind # "w"

\* C15: every read expects the response opcode the table pairs with the opcode
\* of the command written last (load-key 0x0d and load-encrypted-key 0x10 both
\* expect 0x06, the sign-chunk response), every written opcode is a request of
\* the table, and the 22 opcodes of the registry are pairwise distinct.
C15_Pairing ==
  /\ \A i \in 1..Len(log) :
       /\ log[i].kind = "r" =>
            /\ \E j \in 1..(i - 1) : log[j].kind = "w"
            /\ log[i].code = PairedRsp(log[LastWrite(i)].code)
       /\ log[i].kind = "w" => PairedRsp(log[i].code) # 0
  /\ Cardinality({d.code : d \in Requests \cup Responses}) = 22
  /\ {d.code : d \in Requests} = {1, 3, 5, 7, 9, 11, 13, 14, 16, 17, 19, 21}

\* the acknowledgement of a load-encrypted-key chunk was read as a sign-chunk
\* response
C15_Witness ==
  /\ op = "LoadKey"
  /\ ~block
  /\ Len(log) = 4
  /\ log[3].kind = "w"
  /\ log[3].code = 16
  /\ log[4].kind = "r"
  /\ log[4].code = 6
  /\ log[4].res = "ok"

\* ------------------------------------------------------------ C16

ChunkCodes == {cmdSignData.code, cmdLoadKey.code, cmdLoadEncKey.code}

\* the chunk frames written so far, in write order
ChunksWritten == SelectSeq(log, LAMBDA e : e.kind = "w" /\ e.code \in ChunkCodes)

\* the first ns[k] payload bytes of every chunk ws[k], one after the other
RECURSIVE CatChunks(_, _)
CatChunks(ws, ns) ==
  IF ns = <<>> THEN <<>>
  ELSE SubSeq(ws[1].payload, 1, ns[1]) \o CatChunks(Tail(ws), Tail(ns))

\* C16: every chunk frame written carries 127 payload bytes: the copied =
\* min(127, len(data) - offset) bytes of data from the cursor on, then
\* 127 - copied zeros; an acknowledged chunk moves the cursor by copied; the
\* first copied bytes of the acknowledged chunks, in write order, are the bytes
\* of data up to the cursor, and all of data when the loop has ended.
C16_ChunkContent ==
  LET ws == ChunksWritten
  IN /\ \A k \in 1..Len(ws) :
          LET off == ws[k].off
              copied == Min(127, Len(data) - off)
          IN /\ Len(ws[k].payload) = 127
             /\ copied >= 1
             /\ \A j \in 1..127 :
                  ws[k].payload[j] = IF j <= copied THEN data[off + j] ELSE 0
             /\ off = IF k = 1 THEN 0 ELSE ws[k - 1].off + nsents[k - 1]
             /\ k <= Len(nsents) => nsents[k] = copied
     /\ Len(nsents) <= Len(ws)
     /\ Len(ws) <= Len(nsents) + 1
     /\ op \in {"Sign", "LoadKey"} =>
          /\ offset = SumSeq(nsents)
          /\ offset <= Len(data)
          /\ CatChunks(ws, nsents) = SubSeq(data, 1, offset)
          /\ pc \in {"getSig_Write", "keyEncrypt_Write", "decryptKey_Write"} =>
               CatChunks(ws, nsents) = data

\* the 14 load-key chunks of a PEM key went out, the last with 25 bytes of the
\* key and 102 zeros
C16_Witness ==
  /\ op = "LoadKey"
  /\ block
  /\ pc = "keyEncrypt_Write"
  /\ Len(ChunksWritten) = 14
  /\ ChunksWritten[14].off = 1651
  /\ ChunksWritten[14].payload[25] = data[KeySize]
  /\ ChunksWritten[14].payload[25] # 0
  /\ ChunksWritten[14].payload[26] = 0
  /\ nsents[14] = 25
  /\ offset = KeySize

\* ------------------------------------------------------------ C17

\* the sub-step a log entry belongs to
StepOfEntry(e) ==
  IF e.kind = "f" THEN "persist"
  ELSE IF e.code \in {cmdSetSize.code, rspSetSize.code} THEN "setSize"
  ELSE IF e.code \in ChunkCodes \cup {rspSignData.code} THEN "chunk"
  ELSE IF e.code \in {cmdGetSig.code, rspGetSig.code} THEN "getSig"
  ELSE IF e.code \in {cmdEncryptKey.code, rspEncryptKey.code} THEN "encrypt"
  ELSE IF e.code \in {cmdDecryptKey.code, rspDecryptKey.code} THEN "decrypt"
  ELSE IF e.code \in {cmdParseKey.code, rspParseKey.code} THEN "parse"
  ELSE "other"

\* the sub-step at which the operation that has returned an error failed: that
\* of its last call when that call failed, "input" before any call, and
\* "persist" when the key file could not be opened for writing
FailedStep ==
  IF log = <<>> THEN "input"
  ELSE IF Failed(log[Len(log)]) THEN StepOfEntry(log[Len(log)])
  ELSE "persist"

\* the sub-step an error names, read from the error alone
NamedStep(e) ==
  IF e \in InputErrors THEN "input"
  ELSE IF e[1] = "setSize" THEN "setSize"
  ELSE IF e[1] = "signLoad" THEN "chunk"
  ELSE IF e[1] = "getSig" THEN "getSig"
  ELSE IF e[1] = "failed to encrypt"
  THEN IF e[2] = "zv" THEN "encrypt"
       ELSE IF e[2] = "transferKey" /\ e[3] = "setSize" THEN "setSize"
       ELSE IF e[2] = "transferKey" /\ e[3] = "keyLoad" THEN "chunk"
       ELSE "unnamed"
  ELSE IF e[1] = "failed load keye"
  THEN IF e[2] = "setSize" THEN "setSize"
       ELSE IF e[2] = "keyLoad" THEN "chunk"
       ELSE "unnamed"
  ELSE IF e[1] = "decryptKey" THEN "decrypt"
  ELSE IF e[1] \in {"failed to open id_rsa for write", "did not write enough data"}
  THEN "persist"
  ELSE IF e[1] = "parseKey" THEN "parse"
  ELSE "unnamed"

\* C17: the error LoadKey or Sign returns names the sub-step that failed
\* (input, set-size, chunk transfer, encrypt-key, decrypt-key, persist,
\* parse-key, get-signature): the step read from the error alone is the step
\* at which the operation stopped, so errors of different steps differ.
C17_StepNamed ==
  (op \in {"Sign", "LoadKey"} /\ pc = "done" /\ err # Nil) =>
    /\ NamedStep(err) = FailedStep
    /\ NamedStep(err) # "unnamed"

\* encrypt-key failed on a read after the key was transferred
C17_Witness ==
  /\ op = "LoadKey"
  /\ block
  /\ pc = "done"
  /\ err = <<"failed to encrypt", "zv", "ReadFrame", "err">>
  /\ FailedStep = "encrypt"
  /\ Len(ReadsOf(rspSignData)) = 14

\* ------------------------------------------------------------ C18

\* the chunking loop has ended and its caller goes on
LoopExited == pc \in {"getSig_Write", "keyEncrypt_Write", "decryptKey_Write"}

\* C18: with signLoad, transferPiece and keyEncLoad as they are, the cursor of
\* the chunking loops stays within 0..len(data), every acknowledged chunk moves
\* it by at least 1 and at most 127 bytes, the loop ends with the cursor at
\* len(data), and no operation returns 'transmitted more than expected'.
C18_CursorInvariant ==
  op \in {"Sign", "LoadKey"} =>
    /\ offset >= 0
    /\ offset <= Len(data)
    /\ \A k \in 1..Len(nsents) : nsents[k] >= 1 /\ nsents[k] <= 127
    /\ offset = SumSeq(nsents)
    /\ LoopExited => offset = Len(data)
    /\ \A k \in 1..Len(err) : err[k] # "transmitted more than expected"

\* the loop of Sign ended at the end of a 300-byte message after chunks of 127,
\* 127 and 46 bytes
C18_Witness ==
  /\ op = "Sign"
  /\ LoopExited
  /\ Len(data) = 300
  /\ nsents = <<127, 127, 46>>
  /\ offset = 300

\* ------------------------------------------------------------ C19

KeyChunkCodes == {cmdLoadKey.code, cmdLoadEncKey.code}

\* the writes of LoadKey's log that carry one of the given codes
WritesOf(codes) == {i \in 1..Len(log) : log[i].kind = "w" /\ log[i].code \in codes}

\* C19: LoadKey's first transport call is the only set-payload-size write of the
\* call and declares 1676 bytes whatever the length of the key file; a key
\* chunk (load-key or load-encrypted-key) is written only after that exchange
\* was read with a success status; the chunks carry 127 bytes each but the
\* 14th, which carries 25, so 1676 bytes when the transfer is complete.
C19_KeyTransfer ==
  (op = "LoadKey" /\ log # <<>>) =>
    /\ Len(data) = 1676
    /\ WritesOf({cmdSetSize.code}) = {1}
    /\ DeclaredSize(log[1].payload) = 1676
    /\ WritesOf(KeyChunkCodes) # {} =>
         /\ log[2].kind = "r"
         /\ log[2].code = rspSetSize.code
         /\ log[2].res = "ok"
         /\ log[2].payload[1] = StatusOK
         /\ \A i \in WritesOf(KeyChunkCodes) : i > 2
    /\ \A i \in WritesOf(KeyChunkCodes) :
         log[i].code = IF block THEN cmdLoadKey.code ELSE cmdLoadEncKey.code
    /\ Cardinality(WritesOf(KeyChunkCodes)) <= 14
    /\ \A k \in 1..Len(nsents) : nsents[k] = IF k < 14 THEN 127 ELSE 25
    /\ (LoopExited \/ WritesOf({cmdEncryptKey.code, cmdDecryptKey.code}) # {}) =>
         /\ Cardinality(WritesOf(KeyChunkCodes)) = 14
         /\ Len(nsents) = 14
         /\ SumSeq(nsents) = 1676

\* a key file of 1675 bytes was transferred as 1676 bytes in 14 chunks
C19_Witness ==
  /\ op = "LoadKey"
  /\ Len(file) = 1675
  /\ pc = "decryptKey_Write"
  /\ DeclaredSize(log[1].payload) = 1676
  /\ Cardinality(WritesOf(KeyChunkCodes)) = 14
  /\ nsents[14] = 25
  /\ data[1676] = 0

\* ------------------------------------------------------------ C20

\* the 1676 bytes keyEncrypt returns when the device answers with pattern seed
Blob(seed) ==
  [j \in 1..KeySize |-> DevByte(seed, (j - 1) \div 127, ((j - 1) % 127) + 1)]

\* the key file starts with the 1676 bytes of a key the device encrypted
BlobOnFile ==
  /\ Len(file) >= KeySize
  /\ \E seed \in 0..MaxSeed : SubSeq(file, 1, KeySize) = Blob(seed)

\* the key file was written in full by this call of LoadKey
Persisted == \E i \in 1..Len(log) : log[i].kind = "f" /\ log[i].res = "ok"

\* C20: on the PEM branch parse-key is written only after the whole encrypted
\* key was written to the key file; from then on, also when parse-key fails,
\* the file starts with the 1676 bytes keyEncrypt returned and not with the
\* key that was read; and a LoadKey call that finds such a file, unless it cannot open or
\* read it, takes the non-PEM branch (load-encrypted-key chunks of the file's
\* bytes, decrypt-key, parse-key) and never writes encrypt-key.
C20_PersistNoRollback ==
  /\ (op = "LoadKey" /\ block) =>
       /\ WritesOf({cmdParseKey.code}) # {} => Persisted
       /\ Persisted =>
            /\ Len(file) >= 1676
            /\ SubSeq(file, 1, 1676) = buf
            /\ BlobOnFile
            /\ SubSeq(file, 1, 1676) # data
            /\ ~PemDecode(SubSeq(file, 1, 1676))
  /\ (op = "LoadKey" /\ FileIsInput /\ BlobOnFile) =>
       /\ log # <<>> => (~block /\ data = SubSeq(file, 1, 1676))
       /\ (log = <<>> /\ pc = "done") => (~ReadAll \/ err = <<"failed to read">>)
       /\ IsPrefix(KindCode(log), EncPlan)
       /\ WritesOf({cmdEncryptKey.code, cmdLoadKey.code}) = {}

\* a LoadKey call found the encrypted key an earlier call had persisted, and
\* loaded it over the non-PEM branch
C20_Witness ==
  /\ op = "LoadKey"
  /\ FileIsInput
  /\ BlobOnFile
  /\ ~block
  /\ pc = "done"
  /\ err = Nil
  /\ KindCode(log) = EncPlan

====
